---- MODULE Spec2Model ----
(***************************************************************************)
(* Model of the unit-processing core of AAC.py: split_outside_parens,      *)
(* process_unit_token_no_paren, process_unit_token, resolve_compound_unit. *)
(*                                                                         *)
(* A Python str is modelled as a sequence of one-character strings, so     *)
(* "km" is <<"k", "m">>.  Python indices are 0-based; Slice, find and the  *)
(* loop index i keep the 0-based values of the source.                     *)
(***************************************************************************)
EXTENDS Integers, Sequences, FiniteSets, TLC

VARIABLES
    entry,            \* which function of the module is being called
    text,             \* the str argument of the call
    delimiters,       \* split_outside_parens: the delimiters list
    base_units,       \* the base_units set
    multipliers_dict, \* the keys of multipliers_dict, in insertion order
    pc,               \* position in the called function
    i,                \* split_outside_parens: scan index (0-based)
    depth,            \* split_outside_parens: parenthesis depth
    current,          \* split_outside_parens: content accumulated so far
    tokens,           \* split_outside_parens: tokens emitted so far
    matched_at,       \* history: for each token, TRUE iff appended as `matched`
    emitted_at,       \* history: the <<scan index, delimiter>> pairs that matched
    part_no,          \* resolve_compound_unit: number of tokens consumed by the for loop
    resolved_parts,   \* resolve_compound_unit: resolved_parts
    result            \* the returned str (the returned list for split_outside_parens)

vars == <<entry, text, delimiters, base_units, multipliers_dict, pc, i, depth,
          current, tokens, matched_at, emitted_at, part_no, resolved_parts, result>>

---------------------------------------------------------------------------
(* Python str primitives *)

\* The characters of the model's alphabet that str.strip() and \s treat as whitespace.
Whitespace == {" ", "\t"}

\* The characters \d matches.
Digit == {"0", "1", "2", "3", "4", "5", "6", "7", "8", "9"}

\* The sign characters of the numeric group, [+\-±].
Sign == {"+", "-", "±"}

MinOf(S) == CHOOSE x \in S : \A y \in S : x <= y

MaxOf(S) == CHOOSE x \in S : \A y \in S : x >= y

\* s[a:b] for 0 <= a, with b clamped to len(s) as Python does.
Slice(s, a, b) == SubSeq(s, a + 1, IF b > Len(s) THEN Len(s) ELSE b)

\* s[a:]
SliceFrom(s, a) == SubSeq(s, a + 1, Len(s))

\* s.startswith(p)
startswith(s, p) == Len(p) <= Len(s) /\ SubSeq(s, 1, Len(p)) = p

\* s.find(sub) with the mutated search direction (last occurrence, as rfind).
find_last(s, sub) ==
    LET hits == {k \in 0..(Len(s) - Len(sub)) : SubSeq(s, k + 1, k + Len(sub)) = sub}
    IN  IF hits = {} THEN -1 ELSE MaxOf(hits)

\* s.find(sub): the lowest 0-based index of sub in s, or -1.
find(s, sub) ==
    LET hits == {k \in 0..(Len(s) - Len(sub)) : SubSeq(s, k + 1, k + Len(sub)) = sub}
    IN  IF hits = {} THEN -1 ELSE MinOf(hits)

\* The number of characters of s, from 0-based index a on, that lie in S
\* before the first one that does not: a greedy run, as \s* or \d* takes it.
Run(s, a, S) ==
    LET stops == {k \in a..Len(s) : k = Len(s) \/ s[k + 1] \notin S}
    IN  MinOf(stops) - a

\* The length of the run of characters of S ending s.
RunBack(s, S) ==
    LET starts == {k \in 0..Len(s) : \A j \in (k + 1)..Len(s) : s[j] \in S}
    IN  Len(s) - MinOf(starts)

\* s.lstrip()
lstrip(s) == SliceFrom(s, Run(s, 0, Whitespace))

\* s.rstrip()
rstrip(s) == SubSeq(s, 1, Len(s) - RunBack(s, Whitespace))

\* s.strip()
strip(s) == lstrip(rstrip(s))

\* ch.lower() on the letters of the model's alphabet.
LowerChar(ch) ==
    CASE ch = "O" -> "o"
      [] ch = "H" -> "h"
      [] ch = "M" -> "m"
      [] ch = "K" -> "k"
      [] OTHER -> ch

\* s.lower()
lower(s) == [k \in 1..Len(s) |-> LowerChar(s[k])]

\* sub in s
contains(s, sub) == find(s, sub) # -1

\* "".join(parts)
RECURSIVE join(_)
join(parts) == IF parts = <<>> THEN <<>> ELSE Head(parts) \o join(Tail(parts))

\* The keys of a list that have length n, then those of each smaller length:
\* a stable sort by descending length.
RECURSIVE ByLenFrom(_, _)
ByLenFrom(keys, n) ==
    IF n < 0 THEN <<>>
    ELSE SelectSeq(keys, LAMBDA d : Len(d) = n) \o ByLenFrom(keys, n - 1)

\* The same keys by ascending length (the order without reverse=True).
RECURSIVE ByLenUpTo(_, _, _)
ByLenUpTo(keys, n, top) ==
    IF n > top THEN <<>>
    ELSE SelectSeq(keys, LAMBDA d : Len(d) = n) \o ByLenUpTo(keys, n + 1, top)

sorted_shortest_first(keys) ==
    IF keys = <<>> THEN <<>>
    ELSE ByLenUpTo(keys, 0, MaxOf({Len(keys[k]) : k \in 1..Len(keys)}))

\* sorted(keys, key=len, reverse=True)
sorted_longest_first(keys) ==
    IF keys = <<>> THEN <<>>
    ELSE ByLenFrom(keys, MaxOf({Len(keys[k]) : k \in 1..Len(keys)}))

---------------------------------------------------------------------------
(* process_unit_token_no_paren *)

\* The multiplier table of the application: the keys of MULTIPLIER_MAPPING in
\* insertion order.
MULTIPLIER_MAPPING ==
    << <<"k">>, <<"M">>, <<"G">>, <<"T">>, <<"P">>, <<"E">>, <<"Z">>, <<"Y">>,
       <<"d">>, <<"c">>, <<"m">>, <<"µ">>, <<"n">>, <<"p">>, <<"f">>, <<"a">>,
       <<"z">>, <<"y">> >>

\* f"Error: Undefined unit '{stripped}' (no recognized prefix)"
UndefinedUnit(stripped) ==
    <<"E", "r", "r", "o", "r", ":", " ", "U", "n", "d", "e", "f", "i", "n", "e", "d",
      " ", "u", "n", "i", "t", " ", "'">>
    \o stripped \o
    <<"'", " ", "(", "n", "o", " ", "r", "e", "c", "o", "g", "n", "i", "z", "e", "d",
      " ", "p", "r", "e", "f", "i", "x", ")">>

\* The prefixes, in the order the for loop tries them, at which the loop returns:
\* stripped starts with the prefix, the rest is a base unit, and the prefix
\* is found in the searched string.
ReturningPrefixes(searched, stripped, bases, keys) ==
    SelectSeq(sorted_longest_first(keys),
              LAMBDA prefix :
                  /\ startswith(stripped, prefix)
                  /\ SliceFrom(stripped, Len(prefix)) \in bases
                  /\ find(searched, prefix) # -1)

\* The branch for a token that starts with "$".
MarkedBranch(token, bases, keys) ==
    LET after == SliceFrom(token, 1)
        stripped == strip(after)
        returning == ReturningPrefixes(after, stripped, bases, keys)
    IN  IF stripped = <<>> THEN <<"$">>
        ELSE IF stripped \in bases THEN <<"$">> \o after
        ELSE IF returning # <<>> THEN
            LET prefix == Head(returning)
                idx == find(after, prefix)
                preserved ==
                    IF idx = 1 /\ after[1] = " "
                    THEN Slice(after, 0, 0) \o SliceFrom(after, idx + Len(prefix))
                    ELSE Slice(after, 0, idx) \o SliceFrom(after, idx + Len(prefix))
            IN  <<"$">> \o preserved
        ELSE UndefinedUnit(stripped)

\* The branch for a token that does not start with "$".
UnmarkedBranch(token, bases, keys) ==
    LET stripped == strip(token)
        returning == ReturningPrefixes(token, stripped, bases, keys)
    IN  IF stripped \in bases THEN <<"$">> \o stripped
        ELSE IF returning # <<>> THEN
            LET prefix == Head(returning)
                idx == find(token, prefix)
                preserved ==
                    IF idx > 0 /\ token[idx] = " "
                    THEN IF idx = 1
                         THEN Slice(token, 0, 0) \o SliceFrom(token, idx + Len(prefix))
                         ELSE Slice(token, 0, idx) \o SliceFrom(token, idx + Len(prefix))
                    ELSE Slice(token, 0, idx) \o SliceFrom(token, idx + Len(prefix))
            IN  <<"$">> \o preserved
        ELSE UndefinedUnit(stripped)

\* process_unit_token_no_paren without the branch for a leading "$".
process_unit_token_no_paren_unmarked(token, bases, keys) ==
    UnmarkedBranch(token, bases, keys)

process_unit_token_no_paren(token, bases, keys) ==
    IF startswith(token, <<"$">>)
    THEN MarkedBranch(token, bases, keys)
    ELSE UnmarkedBranch(token, bases, keys)

---------------------------------------------------------------------------
(* process_unit_token *)

\* The value of a failed pattern.match.
None == [matched |-> FALSE]

\* Whether rest matches (?P<space2>\s*)(?P<paren>\([^)]*\))?(?P<trail>\s*)$ :
\* whitespace alone, or whitespace, "(", characters other than ")", ")", whitespace.
TailMatches(rest) ==
    LET r == lstrip(rest)
    IN  \/ r = <<>>
        \/ /\ r[1] = "("
           /\ find(r, <<")">>) # -1
           /\ strip(SliceFrom(r, find(r, <<")">>) + 1)) = <<>>

\* The groups of the tail, for a rest that TailMatches.
TailGroups(rest) ==
    LET n2 == Run(rest, 0, Whitespace)
        r == SliceFrom(rest, n2)
    IN  IF r = <<>>
        THEN [space2 |-> Slice(rest, 0, n2), paren |-> <<>>, trail |-> <<>>]
        ELSE [space2 |-> Slice(rest, 0, n2),
              paren |-> Slice(r, 0, find(r, <<")">>) + 1),
              trail |-> SliceFrom(r, find(r, <<")">>) + 1)]

\* The length of (?:\.\d+)? at 0-based index a: "." and the digits after it,
\* or nothing when no digit follows the ".".
FractionLen(token, a) ==
    IF a < Len(token) /\ token[a + 1] = "." /\ Run(token, a + 1, Digit) > 0
    THEN 1 + Run(token, a + 1, Digit)
    ELSE 0

\* The length of the text [+\-±]?\d*(?:\.\d+)? takes at 0-based index a: all
\* it can, since nothing after it can make it give a character back.
NumericLen(token, a) ==
    LET nSign == IF a < Len(token) /\ token[a + 1] \in Sign THEN 1 ELSE 0
        nInt == Run(token, a + nSign, Digit)
    IN  nSign + nInt + FractionLen(token, a + nSign + nInt)

\* The groups of a match whose lead ends at a, numeric at b and space1 at c,
\* and whose unit is the first u characters after c.
Groups(token, a, b, c, u) ==
    [matched |-> TRUE,
     lead |-> Slice(token, 0, a),
     numeric |-> Slice(token, a, b),
     space1 |-> Slice(token, b, c),
     unit |-> Slice(token, c, c + u),
     space2 |-> TailGroups(SliceFrom(token, c + u)).space2,
     paren |-> TailGroups(SliceFrom(token, c + u)).paren,
     trail |-> TailGroups(SliceFrom(token, c + u)).trail]

\* The lengths the lazy unit group may have after 0-based index c: the tail
\* matches behind it, and "." matches no line break.
UnitFits(token, c) ==
    {u \in 0..(Len(token) - c) :
        /\ \A k \in 1..u : token[c + k] # "\n"
        /\ TailMatches(SliceFrom(token, c + u))}

\* The match with lead ending at a and numeric at b: space1 takes all the
\* whitespace, unit is the shortest text after which the tail matches.
MatchFrom(token, a, b) ==
    IF UnitFits(token, b + Run(token, b, Whitespace)) = {} THEN None
    ELSE Groups(token, a, b, b + Run(token, b, Whitespace),
                MinOf(UnitFits(token, b + Run(token, b, Whitespace))))

\* pattern.match(token): the greedy groups lead, numeric and space1 take all
\* they can (the lazy unit group accepts whatever they leave, so they never
\* give anything back).
pattern_match(token) ==
    MatchFrom(token, Run(token, 0, Whitespace),
              Run(token, 0, Whitespace) + NumericLen(token, Run(token, 0, Whitespace)))

\* The Ohm special case leaving new_unit as it is.
OhmMarkerUnspaced(new_unit) == new_unit

\* The Ohm special case applied to new_unit.
OhmMarker(new_unit) ==
    IF startswith(new_unit, <<"$">>) /\ ~startswith(new_unit, <<"$", " ">>)
    THEN <<"$", " ">> \o lstrip(SliceFrom(new_unit, 1))
    ELSE new_unit

\* The Ohm special case leaving space1 as it is.
OhmSpaceKept(numeric, space1) == space1

\* The Ohm special case applied to space1.
OhmSpace(numeric, space1) ==
    IF numeric # <<>> /\ space1 = <<>> THEN <<" ">> ELSE space1

\* core, left_ws and right_ws of the unit group
Core(unit) == strip(unit)

LeftWs(unit) == Slice(unit, 0, Run(unit, 0, Whitespace))

RightWs(unit) == SliceFrom(unit, Len(unit) - RunBack(unit, Whitespace))

\* "ohm" in core.lower()
IsOhm(core) == contains(lower(core), <<"o", "h", "m">>)

\* new_unit before the Ohm special case
NewUnit(unit, bases, keys) ==
    LeftWs(unit) \o process_unit_token_no_paren(Core(unit), bases, keys) \o RightWs(unit)

\* The returned f-string without {space2}.
RebuiltWithoutSpace2(m, bases, keys) ==
    m.lead \o m.numeric
    \o (IF IsOhm(Core(m.unit)) THEN OhmSpace(m.numeric, m.space1) ELSE m.space1)
    \o (IF IsOhm(Core(m.unit)) THEN OhmMarker(NewUnit(m.unit, bases, keys))
        ELSE NewUnit(m.unit, bases, keys))
    \o m.paren \o m.trail

\* The returned f-string, for a match m.
Rebuilt(m, bases, keys) ==
    m.lead \o m.numeric
    \o (IF IsOhm(Core(m.unit)) THEN OhmSpace(m.numeric, m.space1) ELSE m.space1)
    \o (IF IsOhm(Core(m.unit)) THEN OhmMarker(NewUnit(m.unit, bases, keys))
        ELSE NewUnit(m.unit, bases, keys))
    \o m.space2 \o m.paren \o m.trail

process_unit_token(token, bases, keys) ==
    IF ~pattern_match(token).matched THEN token
    ELSE Rebuilt(pattern_match(token), bases, keys)

---------------------------------------------------------------------------
(* The calls the model makes: dictionaries and input strings *)

\* The delimiters resolve_compound_unit passes and tests against: ["to", ",", "@"].
Connectors == << <<"t", "o">>, <<",">>, <<"@">> >>

\* x in list
InList(x, list) == \E k \in 1..Len(list) : list[k] = x

\* The dictionary of the end-to-end example: base_units {"m", "Ohm"}, multipliers {"k"}.
ExampleDict == [base_units |-> {<<"m">>, <<"O", "h", "m">>},
                multipliers_dict |-> << <<"k">> >>]

\* The application's call: MULTIPLIER_MAPPING with a mapping file of m and Ohm.
AppDict == [base_units |-> {<<"m">>, <<"O", "h", "m">>},
            multipliers_dict |-> MULTIPLIER_MAPPING]

\* A dictionary whose prefixes overlap: "k" and "km" both leave a base unit of "kmm".
OverlapDict == [base_units |-> {<<"m">>, <<"m", "m">>, <<"O", "h", "m">>},
                multipliers_dict |-> << <<"m">>, <<"k">>, <<"k", "m">> >>]

\* The delimiters lists split_outside_parens is called with directly.
DelimiterLists ==
    { Connectors,
      << <<"t">>, <<"t", "o">> >>,
      << <<>>, <<",">> >>,
      << <<",">>, <<"(">> >> }

MaxTextPieces == 3

MaxTokenPieces == 4

\* All sequences of at most n elements of S.
SeqsUpTo(S, n) == UNION {[1..k -> S] : k \in 0..n}

TextPieces ==
    { <<"(">>, <<")">>, <<",">>, <<"t", "o">>, <<"t">>, <<" ">>,
      <<"k">>, <<"m">>, <<"O", "h", "m">> }

\* "5 km to 10Ohm", "A(to)B", ",,", ")to(to", "5 km@x, $Ohm", "5xohm,m"
ExampleTexts ==
    { <<"5", " ", "k", "m", " ", "t", "o", " ", "1", "0", "O", "h", "m">>,
      <<"A", "(", "t", "o", ")", "B">>,
      <<",", ",">>,
      <<")", "t", "o", "(", "t", "o">>,
      <<"5", " ", "k", "m", "@", "x", ",", " ", "$", "O", "h", "m">>,
      <<"5", "x", "o", "h", "m", ",", "m">> }

Texts == {join(ps) : ps \in SeqsUpTo(TextPieces, MaxTextPieces)} \cup ExampleTexts

TokenPieces ==
    { <<" ">>, <<"5">>, <<"$">>, <<"k">>, <<"m">>, <<"O", "h", "m">>, <<"(">>, <<")">> }

ShapedCores ==
    { <<"m">>, <<"k", "m">>, <<"k", "m", "m">>, <<"O", "h", "m">>, <<"k", "O", "h", "m">>,
      <<"m", "O", "H", "M">>, <<"$", "O", "h", "m">>, <<"$", " ", "k", "O", "h", "m">>,
      <<"$", "\t", "O", "h", "m">>, <<"x", "o", "h", "m">>, <<"x">> }

\* Tokens laid out as the pattern reads them: lead, numeric, space1, unit,
\* space2, paren, trail.
ShapedTokens ==
    { lead \o numeric \o space1 \o core \o space2 \o paren \o trail :
        lead \in {<<>>, <<" ">>, <<"\t">>},
        numeric \in {<<>>, <<"5">>, <<"-", "1", ".", "5">>},
        space1 \in {<<>>, <<" ">>},
        core \in ShapedCores,
        space2 \in {<<>>, <<" ">>},
        paren \in {<<>>, <<"(", "m", ")">>},
        trail \in {<<>>, <<" ">>} }

Tokens == {join(ps) : ps \in SeqsUpTo(TokenPieces, MaxTokenPieces)} \cup ShapedTokens

---------------------------------------------------------------------------
(* split_outside_parens *)

\* The value of `matched` after the for loop at scan index at: the first
\* delimiter, longest first, that the text holds there; <<>> stands for both
\* falsy values, None and "".
Matched(txt, at, delims) ==
    LET hits == SelectSeq(sorted_longest_first(delims),
                          LAMBDA delim : Slice(txt, at, at + Len(delim)) = delim)
    IN  IF hits = <<>> THEN <<>> ELSE Head(hits)

\* tokens after `if current: tokens.append(current)`
Flushed(toks, cur) == IF cur # <<>> THEN Append(toks, cur) ELSE toks

\* matched_at after the same append of a content token
FlushedMark(marks, cur) == IF cur # <<>> THEN Append(marks, FALSE) ELSE marks

ScanStays == UNCHANGED <<entry, text, delimiters, base_units, multipliers_dict, pc,
                         part_no, resolved_parts, result>>

\* ch == '('
ScanOpenParen ==
    /\ pc = "scan" /\ i < Len(text) /\ text[i + 1] = "("
    /\ depth' = depth + 1
    /\ current' = Append(current, text[i + 1])
    /\ i' = i + 1
    /\ UNCHANGED <<tokens, matched_at, emitted_at>>
    /\ ScanStays

\* ch == ')' without the floor at 0
ScanCloseParenUnfloored ==
    /\ pc = "scan" /\ i < Len(text) /\ text[i + 1] = ")"
    /\ depth' = depth - 1
    /\ current' = Append(current, text[i + 1])
    /\ i' = i + 1
    /\ UNCHANGED <<tokens, matched_at, emitted_at>>
    /\ ScanStays

\* ch == ')'
ScanCloseParen ==
    /\ pc = "scan" /\ i < Len(text) /\ text[i + 1] = ")"
    /\ depth' = (IF depth - 1 > 0 THEN depth - 1 ELSE 0)
    /\ current' = Append(current, text[i + 1])
    /\ i' = i + 1
    /\ UNCHANGED <<tokens, matched_at, emitted_at>>
    /\ ScanStays

\* depth == 0 and a delimiter matched, appending current even when it is empty
ScanDelimiterKeepingEmpty ==
    /\ pc = "scan" /\ i < Len(text) /\ text[i + 1] \notin {"(", ")"}
    /\ depth = 0
    /\ Matched(text, i, delimiters) # <<>>
    /\ tokens' = Append(Append(tokens, current), Matched(text, i, delimiters))
    /\ matched_at' = Append(Append(matched_at, FALSE), TRUE)
    /\ emitted_at' = emitted_at \cup {<<i, Matched(text, i, delimiters)>>}
    /\ current' = <<>>
    /\ i' = i + Len(Matched(text, i, delimiters))
    /\ UNCHANGED depth
    /\ ScanStays

\* depth == 0 and a delimiter matched
ScanDelimiter ==
    /\ pc = "scan" /\ i < Len(text) /\ text[i + 1] \notin {"(", ")"}
    /\ depth = 0
    /\ Matched(text, i, delimiters) # <<>>
    /\ tokens' = Append(Flushed(tokens, current), Matched(text, i, delimiters))
    /\ matched_at' = Append(FlushedMark(matched_at, current), TRUE)
    /\ emitted_at' = emitted_at \cup {<<i, Matched(text, i, delimiters)>>}
    /\ current' = <<>>
    /\ i' = i + Len(Matched(text, i, delimiters))
    /\ UNCHANGED depth
    /\ ScanStays

\* depth == 0 and no delimiter matched, dropping the character
ScanContentDropping ==
    /\ pc = "scan" /\ i < Len(text) /\ text[i + 1] \notin {"(", ")"}
    /\ depth = 0
    /\ Matched(text, i, delimiters) = <<>>
    /\ i' = i + 1
    /\ UNCHANGED <<current, depth, tokens, matched_at, emitted_at>>
    /\ ScanStays

\* depth == 0 and no delimiter matched
ScanContent ==
    /\ pc = "scan" /\ i < Len(text) /\ text[i + 1] \notin {"(", ")"}
    /\ depth = 0
    /\ Matched(text, i, delimiters) = <<>>
    /\ current' = Append(current, text[i + 1])
    /\ i' = i + 1
    /\ UNCHANGED <<depth, tokens, matched_at, emitted_at>>
    /\ ScanStays

\* depth != 0: the character is content whatever it is
ScanNested ==
    /\ pc = "scan" /\ i < Len(text) /\ text[i + 1] \notin {"(", ")"}
    /\ depth # 0
    /\ current' = Append(current, text[i + 1])
    /\ i' = i + 1
    /\ UNCHANGED <<depth, tokens, matched_at, emitted_at>>
    /\ ScanStays

\* The while loop ends: the last content token is appended and tokens returned,
\* to the caller of split_outside_parens or to resolve_compound_unit's for loop.
ScanReturn ==
    /\ pc = "scan" /\ i >= Len(text)
    /\ tokens' = Flushed(tokens, current)
    /\ matched_at' = FlushedMark(matched_at, current)
    /\ IF entry = "split_outside_parens"
       THEN pc' = "done" /\ result' = tokens'
       ELSE pc' = "resolve" /\ result' = result
    /\ UNCHANGED <<entry, text, delimiters, base_units, multipliers_dict, i, depth,
                   current, emitted_at, part_no, resolved_parts>>

---------------------------------------------------------------------------
(* resolve_compound_unit *)

ResolveStays == UNCHANGED <<entry, text, delimiters, base_units, multipliers_dict,
                            i, depth, current, tokens, matched_at, emitted_at>>

\* part in ["to", ",", "@"]
ResolveConnector ==
    /\ pc = "resolve" /\ part_no < Len(tokens)
    /\ InList(tokens[part_no + 1], Connectors)
    /\ resolved_parts' = Append(resolved_parts, tokens[part_no + 1])
    /\ part_no' = part_no + 1
    /\ UNCHANGED <<pc, result>>
    /\ ResolveStays

\* the else branch, giving up the loop at the first error string
ResolveContentAborting ==
    /\ pc = "resolve" /\ part_no < Len(tokens)
    /\ ~InList(tokens[part_no + 1], Connectors)
    /\ LET part == tokens[part_no + 1]
           out == process_unit_token(part, base_units, multipliers_dict)
       IN  /\ resolved_parts' = Append(resolved_parts, out)
           /\ part_no' = (IF contains(out, <<"E", "r", "r", "o", "r">>)
                          THEN Len(tokens) ELSE part_no + 1)
    /\ UNCHANGED <<pc, result>>
    /\ ResolveStays

\* the else branch: an empty part is skipped, any other is resolved
ResolveContent ==
    /\ pc = "resolve" /\ part_no < Len(tokens)
    /\ ~InList(tokens[part_no + 1], Connectors)
    /\ LET part == tokens[part_no + 1]
       IN  resolved_parts' =
               (IF part = <<>> THEN resolved_parts
                ELSE Append(resolved_parts,
                            process_unit_token(part, base_units, multipliers_dict)))
    /\ part_no' = part_no + 1
    /\ UNCHANGED <<pc, result>>
    /\ ResolveStays

\* return "".join(resolved_parts)
ResolveReturn ==
    /\ pc = "resolve" /\ part_no = Len(tokens)
    /\ result' = join(resolved_parts)
    /\ pc' = "done"
    /\ UNCHANGED <<part_no, resolved_parts>>
    /\ ResolveStays

---------------------------------------------------------------------------
(* Direct calls of process_unit_token and process_unit_token_no_paren *)

CallStays == UNCHANGED <<entry, text, delimiters, base_units, multipliers_dict,
                         i, depth, current, tokens, matched_at, emitted_at,
                         part_no, resolved_parts>>

CallProcessUnitToken ==
    /\ pc = "call" /\ entry = "process_unit_token"
    /\ result' = process_unit_token(text, base_units, multipliers_dict)
    /\ pc' = "done"
    /\ CallStays

CallProcessUnitTokenNoParen ==
    /\ pc = "call" /\ entry = "process_unit_token_no_paren"
    /\ result' = process_unit_token_no_paren(text, base_units, multipliers_dict)
    /\ pc' = "done"
    /\ CallStays

---------------------------------------------------------------------------
(* Specification *)

Locals ==
    /\ i = 0 /\ depth = 0 /\ current = <<>> /\ tokens = <<>>
    /\ matched_at = <<>> /\ emitted_at = {}
    /\ part_no = 0 /\ resolved_parts = <<>> /\ result = <<>>

\* One call: of resolve_compound_unit as the application makes it, or of
\* split_outside_parens, process_unit_token or process_unit_token_no_paren alone.
Init ==
    /\ \/ /\ entry = "resolve_compound_unit"
          /\ text \in Texts
          /\ delimiters = Connectors
          /\ \E d \in {ExampleDict, AppDict} :
                 base_units = d.base_units /\ multipliers_dict = d.multipliers_dict
          /\ pc = "scan"
       \/ /\ entry = "split_outside_parens"
          /\ text \in Texts
          /\ delimiters \in DelimiterLists
          /\ base_units = {} /\ multipliers_dict = <<>>
          /\ pc = "scan"
       \/ /\ entry \in {"process_unit_token", "process_unit_token_no_paren"}
          /\ text \in Tokens
          /\ delimiters = Connectors
          /\ \E d \in {ExampleDict, AppDict, OverlapDict} :
                 base_units = d.base_units /\ multipliers_dict = d.multipliers_dict
          /\ pc = "call"
    /\ Locals

Next ==
    \/ ScanOpenParen
    \/ ScanCloseParen
    \/ ScanDelimiter
    \/ ScanContent
    \/ ScanNested
    \/ ScanReturn
    \/ ResolveConnector
    \/ ResolveContent
    \/ ResolveReturn
    \/ CallProcessUnitToken
    \/ CallProcessUnitTokenNoParen

Spec == Init /\ [][Next]_vars

---------------------------------------------------------------------------
(* Properties *)

\* s.endswith(p)
endswith(s, p) == Len(p) <= Len(s) /\ SubSeq(s, Len(s) - Len(p) + 1, Len(s)) = p

\* The parenthesis depth after the first n characters of s, counted from the
\* text alone: +1 on "(", -1 on ")" but never below 0.
RECURSIVE ParenDepth(_, _)
ParenDepth(s, n) ==
    IF n = 0 THEN 0
    ELSE LET d == ParenDepth(s, n - 1)
         IN  CASE s[n] = "(" -> d + 1
               [] s[n] = ")" -> IF d > 0 THEN d - 1 ELSE 0
               [] OTHER -> d

Resolving == entry = "resolve_compound_unit"

Splitting == entry = "split_outside_parens"

TokenDone == entry = "process_unit_token" /\ pc = "done"

NoParenDone == entry = "process_unit_token_no_paren" /\ pc = "done"

\* The call resolve_compound_unit("5 km to 10Ohm") with base_units {"m", "Ohm"}
\* and multipliers {"k"} has returned.
EndToEndDone ==
    /\ Resolving /\ pc = "done"
    /\ text = <<"5", " ", "k", "m", " ", "t", "o", " ", "1", "0", "O", "h", "m">>
    /\ base_units = ExampleDict.base_units
    /\ multipliers_dict = ExampleDict.multipliers_dict

EndToEndTokens ==
    tokens = << <<"5", " ", "k", "m", " ">>, <<"t", "o">>, <<" ", "1", "0", "O", "h", "m">> >>

\* C1 as stated: "5 km to 10Ohm" tokenizes to ["5 km ", "to", " 10Ohm"] and
\* resolves to exactly "5 $m to 10$ Ohm".
C1_Original ==
    EndToEndDone =>
        /\ EndToEndTokens
        /\ result = <<"5", " ", "$", "m", " ", "t", "o", " ", "1", "0", "$", " ", "O", "h", "m">>

\* C1 amended: "5 km to 10Ohm" tokenizes to ["5 km ", "to", " 10Ohm"] and
\* resolves to exactly "5 $m to 10 $ Ohm": the Ohm rule puts a space after the
\* marker and forces one between the numeral 10 and the marker.
C1_EndToEnd ==
    EndToEndDone =>
        /\ EndToEndTokens
        /\ result = <<"5", " ", "$", "m", " ", "t", "o", " ", "1", "0", " ", "$", " ", "O", "h", "m">>

C1_Witness == EndToEndDone /\ Len(resolved_parts) = 3

\* The token of a direct call is "$" followed by a base unit.
CanonicalToken ==
    /\ pc = "done"
    /\ entry \in {"process_unit_token", "process_unit_token_no_paren"}
    /\ startswith(text, <<"$">>)
    /\ SliceFrom(text, 1) \in base_units

\* C2 as stated: resolving "$" followed by a base unit returns the token
\* unchanged, with process_unit_token too and for Ohm-family base units too.
C2_Original == CanonicalToken => result = text

\* C2 amended: process_unit_token_no_paren returns "$" followed by a base unit
\* unchanged for every base unit; process_unit_token returns it unchanged when
\* the base unit does not contain "ohm" (case-insensitively), and returns "$ "
\* followed by the base unit when it does, which in turn it returns unchanged.
C2_Idempotence ==
    /\ CanonicalToken =>
           IF entry = "process_unit_token" /\ IsOhm(SliceFrom(text, 1))
           THEN result = <<"$", " ">> \o SliceFrom(text, 1)
           ELSE result = text
    /\ (TokenDone /\ startswith(text, <<"$", " ">>)
           /\ SliceFrom(text, 2) \in base_units /\ IsOhm(SliceFrom(text, 2))) =>
           result = text

C2_Witness ==
    /\ CanonicalToken /\ entry = "process_unit_token"
    /\ text = <<"$", "m">> /\ result = <<"$", "m">>

\* The occurrences of a delimiter in the text: <<0-based start, delimiter>>.
Occurrences ==
    {o \in (0..Len(text)) \X {delimiters[k] : k \in 1..Len(delimiters)} :
        o[2] # <<>> /\ Slice(text, o[1], o[1] + Len(o[2])) = o[2]}

\* C3: the scan depth is never negative and is the floored parenthesis depth
\* of the text scanned so far; once the scan is over, an occurrence of "to",
\* "," or "@" was emitted as a connector token iff the depth at its start is 0;
\* "A(to)B" yields the single token "A(to)B".
C3_DepthGating ==
    /\ depth >= 0
    /\ pc = "scan" => depth = ParenDepth(text, i)
    /\ (pc \in {"resolve", "done"} /\ delimiters = Connectors /\ (Resolving \/ Splitting)) =>
           /\ \A o \in Occurrences : (o \in emitted_at) <=> (ParenDepth(text, o[1]) = 0)
           /\ text = <<"A", "(", "t", "o", ")", "B">> => tokens = <<text>>

\* ")to(to" was scanned: the "to" after the unmatched ")" is a connector, the
\* one inside the open parenthesis is not.
C3_Witness ==
    /\ Resolving /\ pc = "done"
    /\ text = <<")", "t", "o", "(", "t", "o">>
    /\ emitted_at = {<<1, <<"t", "o">> >>}
    /\ tokens = << <<")">>, <<"t", "o">>, <<"(", "t", "o">> >>

\* The text process_unit_token_no_paren looks a token up by: the token
\* without its leading "$", if it has one, trimmed.
Trimmed(token) ==
    IF startswith(token, <<"$">>) THEN strip(SliceFrom(token, 1)) ELSE strip(token)

\* The multiplier prefixes that leave a base unit when taken from the start of t.
StrippablePrefixes(t) ==
    {multipliers_dict[k] : k \in 1..Len(multipliers_dict)}
    \cap {prefix \in {SubSeq(t, 1, n) : n \in 0..Len(t)} :
            SliceFrom(t, Len(prefix)) \in base_units}

\* t is neither a base unit nor a multiplier prefix followed by a base unit.
Undefined(t) == t \notin base_units /\ StrippablePrefixes(t) = {}

\* What resolve_compound_unit is to put out for token k, as C4 states it: a
\* connector as it is; a token whose unit core is undefined with the error
\* string in the place of that core and the rest of the token as it was; any
\* other token as process_unit_token resolves it alone.
PieceAsStated(k) ==
    LET m == pattern_match(tokens[k])
    IN  IF matched_at[k] THEN tokens[k]
        ELSE IF Undefined(Trimmed(Core(m.unit)))
        THEN m.lead \o m.numeric \o m.space1 \o UndefinedUnit(Trimmed(Core(m.unit)))
             \o m.space2 \o m.paren \o m.trail
        ELSE process_unit_token(tokens[k], base_units, multipliers_dict)

\* The same, with the two cases C4 leaves out: the core "$" (nothing after
\* the marker) resolves to "$", and a failing core that contains "ohm" still
\* gets the Ohm rule's forced space after the numeral.
Piece(k) ==
    LET m == pattern_match(tokens[k])
        t == Trimmed(Core(m.unit))
    IN  IF matched_at[k] THEN tokens[k]
        ELSE IF Undefined(t) /\ ~(t = <<>> /\ startswith(Core(m.unit), <<"$">>))
        THEN m.lead \o m.numeric
             \o (IF IsOhm(Core(m.unit)) /\ m.numeric # <<>> /\ m.space1 = <<>>
                 THEN <<" ">> ELSE m.space1)
             \o UndefinedUnit(t) \o m.space2 \o m.paren \o m.trail
        ELSE process_unit_token(tokens[k], base_units, multipliers_dict)

\* C4 as stated: every token whose trimmed text is neither a base unit nor a
\* prefix followed by a base unit gets exactly the error string from
\* process_unit_token_no_paren, and in resolve_compound_unit the error string
\* replaces only the failing token's unit core.
C4_Original ==
    /\ (NoParenDone /\ Undefined(Trimmed(text))) => result = UndefinedUnit(Trimmed(text))
    /\ (Resolving /\ pc = "done") =>
           result = join([k \in 1..Len(tokens) |-> PieceAsStated(k)])

\* C4 amended: the same, except that a token that is "$" followed by
\* whitespace only resolves to "$" and not to the error string, and that a
\* failing token whose core contains "ohm" still gets the single space the Ohm
\* rule forces between its numeral and the error string.
C4_ErrorSentinel ==
    /\ (NoParenDone /\ Undefined(Trimmed(text))) =>
           IF startswith(text, <<"$">>) /\ Trimmed(text) = <<>>
           THEN result = <<"$">>
           ELSE result = UndefinedUnit(Trimmed(text))
    /\ (Resolving /\ pc = "done") =>
           result = join([k \in 1..Len(tokens) |-> Piece(k)])

\* "5 km@x, $Ohm" was resolved: the error string stands for x alone, between
\* the resolved "5 $m" and " $ Ohm".
C4_Witness ==
    /\ Resolving /\ pc = "done"
    /\ text = <<"5", " ", "k", "m", "@", "x", ",", " ", "$", "O", "h", "m">>
    /\ result = <<"5", " ", "$", "m", "@">> \o UndefinedUnit(<<"x">>)
                \o <<",", " ", "$", " ", "O", "h", "m">>

\* The token has two strippable prefixes of different lengths and is no base unit.
TwoPrefixes ==
    /\ NoParenDone
    /\ Trimmed(text) \notin base_units
    /\ \E p, q \in StrippablePrefixes(Trimmed(text)) : Len(p) < Len(q)

\* C5: with two or more strippable prefixes of different lengths the longest
\* one is removed, so what follows the marker is the token after its longest
\* strippable prefix; a token that is itself a base unit keeps all of it.
C5_LongestPrefix ==
    /\ TwoPrefixes =>
           \E q \in StrippablePrefixes(Trimmed(text)) :
               /\ \A p \in StrippablePrefixes(Trimmed(text)) : Len(p) <= Len(q)
               /\ startswith(result, <<"$">>)
               /\ strip(SliceFrom(result, 1)) = SliceFrom(Trimmed(text), Len(q))
    /\ (NoParenDone /\ Trimmed(text) \in base_units) =>
           /\ startswith(result, <<"$">>)
           /\ strip(SliceFrom(result, 1)) = Trimmed(text)

\* "kmm" with prefixes k and km and base units m and mm: km is removed.
C5_Witness ==
    /\ TwoPrefixes
    /\ text = <<"k", "m", "m">>
    /\ result = <<"$", "m">>

\* C7: no token is the empty string, at any point of the scan and for every
\* delimiters list; ",," yields two connector tokens and no content token, and
\* resolve_compound_unit(",,") returns ",,".
C7_NoEmptyToken ==
    /\ \A k \in 1..Len(tokens) : tokens[k] # <<>>
    /\ (text = <<",", ",">> /\ InList(<<",">>, delimiters) /\ pc \in {"resolve", "done"}) =>
           /\ tokens = << <<",">>, <<",">> >>
           /\ matched_at = <<TRUE, TRUE>>
    /\ (text = <<",", ",">> /\ Resolving /\ pc = "done") => result = <<",", ",">>

C7_Witness ==
    /\ text = <<",", ",">> /\ Resolving /\ pc = "done"
    /\ Len(tokens) = 2 /\ result = text

\* The regions of a token around its unit core, as the pattern reads them.
Before(m) == m.lead \o m.numeric \o m.space1

After(m) == m.space2 \o m.paren \o m.trail

\* The single space the Ohm special case inserts: the core contains "ohm", a
\* numeral is present and no whitespace follows it.
Inserted(m) ==
    IF IsOhm(Core(m.unit)) /\ m.numeric # <<>> /\ m.space1 = <<>> THEN <<" ">> ELSE <<>>

\* C6: the regions around the unit core make up the token with the core; the
\* output starts with lead, numeric and space1 and ends with space2, paren and
\* trail, verbatim and in that order, around a resolved unit that starts with
\* the marker or, for an undefined unit, with the error string; so the
\* characters outside the unit are as many as in the input, plus the one
\* space of the Ohm special case where it applies.
C6_WhitespacePreserved ==
    (TokenDone /\ pattern_match(text).matched) =>
        LET m == pattern_match(text)
            outside == Len(Before(m)) + Len(Inserted(m)) + Len(After(m))
        IN  /\ Before(m) \o m.unit \o After(m) = text
            /\ m.unit = Core(m.unit)
            /\ startswith(result, Before(m) \o Inserted(m))
            /\ endswith(result, After(m))
            /\ Len(result) > outside
            /\ result[Len(Before(m)) + Len(Inserted(m)) + 1] \in {"$", "E"}
            /\ outside = Len(text) - Len(m.unit) + Len(Inserted(m))
            /\ Len(Inserted(m)) <= 1

\* "\t-1.5 kOhm (m) " was resolved to "\t-1.5 $ Ohm (m) ": every region is there.
C6_Witness ==
    /\ TokenDone
    /\ text = <<"\t", "-", "1", ".", "5", " ", "k", "O", "h", "m", " ", "(", "m", ")", " ">>
    /\ result = <<"\t", "-", "1", ".", "5", " ", "$", " ", "O", "h", "m", " ", "(", "m", ")", " ">>

\* The unit core of the token, read from the token: what is left of it after
\* its leading whitespace, numeral and whitespace, up to the whitespace and
\* parenthetical that end it.
CoreOf(token) == Core(pattern_match(token).unit)

\* The token of a direct call of process_unit_token resolved to a marked unit.
Resolved ==
    /\ TokenDone
    /\ startswith(process_unit_token_no_paren(CoreOf(text), base_units, multipliers_dict),
                  <<"$">>)

\* C8: when the core contains "ohm" and resolves, the first "$" of the output
\* is followed by a space and, when a numeral is present, whitespace and
\* nothing else lies between the numeral and the "$", exactly one space when
\* the input had none there; when the core does not contain "ohm" the output
\* is the token with the core replaced by its resolution and nothing inserted.
C8_OhmRule ==
    /\ (Resolved /\ IsOhm(CoreOf(text))) =>
           LET m == pattern_match(text)
               numEnd == Len(m.lead) + Len(m.numeric)
               marker == find(result, <<"$">>)
           IN  /\ marker >= numEnd
               /\ Slice(result, marker, marker + 2) = <<"$", " ">>
               /\ \A k \in (numEnd + 1)..marker : result[k] \in Whitespace
               /\ m.numeric # <<>> => marker > numEnd
               /\ (m.numeric # <<>> /\ m.space1 = <<>>) =>
                      Slice(result, numEnd, marker) = <<" ">>
               /\ m.space1 # <<>> => Slice(result, numEnd, marker) = m.space1
    /\ (TokenDone /\ ~IsOhm(CoreOf(text))) =>
           LET m == pattern_match(text)
           IN  result = Before(m)
                        \o process_unit_token_no_paren(CoreOf(text), base_units, multipliers_dict)
                        \o After(m)

\* "5kOhm" became "5 $ Ohm": both spaces inserted.
C8_Witness ==
    /\ Resolved /\ IsOhm(CoreOf(text))
    /\ text = <<"5", "k", "O", "h", "m">>
    /\ result = <<"5", " ", "$", " ", "O", "h", "m">>

\* Every delimiter is a non-empty string.
NonEmptyDelimiters == \A k \in 1..Len(delimiters) : delimiters[k] # <<>>

\* No delimiter starts with a parenthesis.
ParenFreeStart == \A k \in 1..Len(delimiters) : ~(delimiters[k][1] \in {"(", ")"})

\* The tokens put together give the text back, a token equals a delimiter iff
\* the tokenizer appended it as a matched delimiter, and
\* resolve_compound_unit has put out each such token as it is, in its place.
Lossless ==
    /\ join(tokens) = text
    /\ \A k \in 1..Len(tokens) : InList(tokens[k], delimiters) <=> matched_at[k]
    /\ Resolving =>
           /\ Len(resolved_parts) = part_no
           /\ \A k \in 1..part_no : matched_at[k] => resolved_parts[k] = tokens[k]
           /\ pc = "done" => result = join(resolved_parts)

\* C9 as stated: for every text and every list of non-empty delimiters.
C9_Original ==
    (pc \in {"resolve", "done"} /\ (Resolving \/ Splitting) /\ NonEmptyDelimiters) => Lossless

\* C9 amended: for every text and every list of non-empty delimiters none of
\* which starts with "(" or ")".
C9_Lossless ==
    (pc \in {"resolve", "done"} /\ (Resolving \/ Splitting)
        /\ NonEmptyDelimiters /\ ParenFreeStart) => Lossless

\* "k,m" was split in a direct call: content, connector, content.
C9_Witness ==
    /\ Splitting /\ pc = "done" /\ delimiters = Connectors
    /\ text = <<"k", ",", "m">>
    /\ result = << <<"k">>, <<",">>, <<"m">> >>
    /\ matched_at = <<FALSE, TRUE, FALSE>>

\* The string the prefix is searched in: the token, or what follows its "$".
Searched(token) == IF startswith(token, <<"$">>) THEN SliceFrom(token, 1) ELSE token

\* C10: a result that is not the error string is "$" followed by text whose
\* trimmed value is a base unit or empty; when a prefix was stripped, that text
\* is the searched string without the prefix at the start of its trimmed
\* part, the whitespace around kept, but for a single leading space when the
\* prefix stands at offset 1.
C10_AnchoredExcision ==
    (NoParenDone /\ startswith(result, <<"$">>)) =>
        LET t == Trimmed(text)
            searched == Searched(text)
            leadWs == LeftWs(searched)
            trailWs == RightWs(searched)
            r == SliceFrom(result, 1)
        IN  /\ strip(r) \in base_units \cup {<<>>}
            /\ (t \notin base_units /\ t # <<>>) =>
                   \E prefix \in StrippablePrefixes(t) :
                       \/ r = leadWs \o SliceFrom(t, Len(prefix)) \o trailWs
                       \/ /\ leadWs = <<" ">>
                          /\ r = SliceFrom(t, Len(prefix)) \o trailWs

\* "mOhm" with prefix m: the first "m" is removed, not the one in "Ohm".
C10_Witness ==
    /\ NoParenDone
    /\ text = <<"m", "O", "h", "m">>
    /\ result = <<"$", "O", "h", "m">>

====
